---- MODULE Spec2Model ----
(***************************************************************************)
(* Doclet: incremental ingestion (src/ingest.py) and the retrieval /       *)
(* prompt / response helpers and the cached index handle (src/app.py).     *)
(***************************************************************************)
EXTENDS Integers, Sequences, FiniteSets, TLC

(***************************************************************************)
(* Bounds of the model                                                     *)
(***************************************************************************)
\* ingest() runs explored in one behaviour
MaxRuns == 2

(***************************************************************************)
(* Generic helpers                                                         *)
(***************************************************************************)
Min(a, b) == IF a <= b THEN a ELSE b

Max(a, b) == IF a >= b THEN a ELSE b

Range(s) == {s[i] : i \in 1..Len(s)}

\* all orderings of a finite set, as sequences without repetition
Perms(S) == {s \in [1..Cardinality(S) -> S] : Range(s) = S}

(***************************************************************************)
(* Python dict: insertion-ordered sequence of <<key, value>> pairs         *)
(***************************************************************************)
None == <<"None">>

DictKeys(d) == {d[i][1] : i \in 1..Len(d)}

\* dict.get(k): the value, or None when the key is absent
DictGet(d, k) ==
    IF k \in DictKeys(d)
    THEN LET i == CHOOSE j \in 1..Len(d) : d[j][1] = k IN d[i][2]
    ELSE None

\* d[k] = v: overwrite in place, or append a new key
DictSet(d, k, v) ==
    IF k \in DictKeys(d)
    THEN [i \in 1..Len(d) |-> IF d[i][1] = k THEN <<k, v>> ELSE d[i]]
    ELSE Append(d, <<k, v>>)

(***************************************************************************)
(* The file system the pipeline reads                                      *)
(***************************************************************************)
DOCS_DIR == <<"docs">>

MkPath(stem, ext) == [dir |-> DOCS_DIR, stem |-> stem, ext |-> ext]

\* the files that may exist under docs/
Paths == {MkPath("a", "md"), MkPath("b", "pdf")}

\* os.path.basename: the directory is stripped
Basename(p) == [stem |-> p.stem, ext |-> p.ext]

Absent == [ok |-> FALSE, texts |-> <<"absent">>]

\* byte contents: parseable text units, or bytes no loader can parse
Contents ==
    { [ok |-> TRUE, texts |-> <<>>],
      [ok |-> TRUE, texts |-> <<"t1">>],
      [ok |-> TRUE, texts |-> <<"t1", "t2">>],
      [ok |-> FALSE, texts |-> <<>>] }

\* compute_file_hash: SHA-256 of the bytes, taken as collision free
compute_file_hash(content) == <<"sha256", content>>

\* loader.load(): raises on unparseable bytes; the text loaders give one
\* document, the PDF loader one document per page (none for no pages)
LoaderRaises(content) == ~content.ok

LoaderLoad(p, content) ==
    IF p.ext \in {"md", "txt"}
    THEN << [page_content |-> content.texts, source |-> None] >>
    ELSE [i \in 1..Len(content.texts) |->
            [page_content |-> <<content.texts[i]>>, source |-> None]]

\* doc.metadata["source"] = os.path.basename(file_path)
TagSource(docs, p) ==
    [i \in 1..Len(docs) |-> [docs[i] EXCEPT !.source = Basename(p)]]

RECURSIVE Flatten(_)
Flatten(ss) == IF ss = <<>> THEN <<>> ELSE Head(ss) \o Flatten(Tail(ss))

\* split_documents: one chunk per text unit, metadata inherited
SplitOne(doc) ==
    [i \in 1..Len(doc.page_content) |->
        [page_content |-> <<doc.page_content[i]>>, source |-> doc.source]]

split_documents(docs) == Flatten([i \in 1..Len(docs) |-> SplitOne(docs[i])])

\* glob.glob(docs/**/*.ext): the existing files of one extension, any order
Glob(fs, ext) == Perms({p \in Paths : p.ext = ext /\ fs[p] # Absent})

FilePathLists(fs) ==
    {a \o b \o c : a \in Glob(fs, "md"), b \in Glob(fs, "txt"), c \in Glob(fs, "pdf")}

(***************************************************************************)
(* ingested_files.json                                                     *)
(***************************************************************************)
\* the file does not exist
NoFile == [exists |-> FALSE, pairs |-> <<>>, closed |-> FALSE]

\* open(HASH_FILE, "w"): the file exists and is empty
Truncated == [exists |-> TRUE, pairs |-> <<>>, closed |-> FALSE]

\* json.dump(hashes): the complete text
JsonDump(d) == [exists |-> TRUE, pairs |-> d, closed |-> TRUE]

\* json.load raises on text that is not a complete JSON object
JsonLoadRaises(f) == f.exists /\ ~f.closed

\* load_ingested_hashes
load_ingested_hashes(f) == IF ~f.exists THEN <<>> ELSE f.pairs

\* get_ingestion_hash: "empty", or the MD5 of the text
get_ingestion_hash(f) == IF ~f.exists THEN <<"empty">> ELSE <<"md5", f.pairs, f.closed>>

(***************************************************************************)
(* The vector index (chroma_db): a bag of fragments                        *)
(***************************************************************************)
Fragments ==
    {[page_content |-> <<t>>, source |-> Basename(p)] : t \in {"t1", "t2"}, p \in Paths}

NoDB == [exists |-> FALSE, count |-> [f \in Fragments |-> 0]]

\* db.add_documents / Chroma.from_documents: every chunk is stored again
AddDocuments(d, cs) ==
    [exists |-> TRUE,
     count |-> [f \in Fragments |->
                  d.count[f] + Cardinality({i \in 1..Len(cs) : cs[i] = f})]]

\* get_indexed_sources
IndexedSources(d) == {f.source : f \in {g \in Fragments : d.count[g] > 0}}

(***************************************************************************)
(* Text: a Python str is a sequence of one-character strings               *)
(***************************************************************************)
\* str.isspace for the characters used
IsSpace(c) == c \in {" ", "\n", "\t"}

UpperCase == <<"A", "B", "C", "D", "E", "F", "G", "H", "I", "J", "K", "L", "M",
               "N", "O", "P", "Q", "R", "S", "T", "U", "V", "W", "X", "Y", "Z">>

LowerCase == <<"a", "b", "c", "d", "e", "f", "g", "h", "i", "j", "k", "l", "m",
               "n", "o", "p", "q", "r", "s", "t", "u", "v", "w", "x", "y", "z">>

LowerChar(c) ==
    IF \E i \in 1..26 : UpperCase[i] = c
    THEN LowerCase[CHOOSE i \in 1..26 : UpperCase[i] = c]
    ELSE c

\* str.lower
Lower(s) == [i \in 1..Len(s) |-> LowerChar(s[i])]

\* s[a:] and s[:b] for non-negative a, b
From(s, a) == SubSeq(s, a + 1, Len(s))

UpTo(s, b) == SubSeq(s, 1, Min(b, Len(s)))

\* str.strip
Strip(s) ==
    LET keep == {i \in 1..Len(s) : ~IsSpace(s[i])}
    IN IF keep = {} THEN <<>>
       ELSE SubSeq(s, CHOOSE i \in keep : \A j \in keep : i <= j,
                      CHOOSE i \in keep : \A j \in keep : i >= j)

\* sub occurs in s at 0-based index i
OccursAt(s, sub, i) ==
    i + Len(sub) <= Len(s) /\ SubSeq(s, i + 1, i + Len(sub)) = sub

\* sub in s
Contains(s, sub) == \E i \in 0..Len(s) : OccursAt(s, sub, i)

\* str.find: the lowest index, or -1
Find(s, sub) ==
    IF Contains(s, sub)
    THEN CHOOSE i \in 0..Len(s) :
            OccursAt(s, sub, i) /\ \A j \in 0..Len(s) : OccursAt(s, sub, j) => i <= j
    ELSE -1

\* str.split("\n")
RECURSIVE SplitLines(_)
SplitLines(s) ==
    IF \A i \in 1..Len(s) : s[i] # "\n"
    THEN <<s>>
    ELSE LET i == CHOOSE j \in 1..Len(s) :
                    s[j] = "\n" /\ \A k \in 1..(j - 1) : s[k] # "\n"
         IN <<SubSeq(s, 1, i - 1)>> \o SplitLines(From(s, i))

\* "\n".join(lines)
RECURSIVE JoinLines(_)
JoinLines(ls) ==
    IF ls = <<>> THEN <<>>
    ELSE IF Len(ls) = 1 THEN ls[1]
    ELSE ls[1] \o <<"\n">> \o JoinLines(Tail(ls))

(***************************************************************************)
(* clean_response (app.py 172-211)                                         *)
(***************************************************************************)
\* the regular expressions match from 1-based position i of s, ignoring
\* case; each matcher gives the position after the match, or 0 for no match
LitAt(s, i, word) ==
    i + Len(word) - 1 <= Len(s) /\ Lower(SubSeq(s, i, i + Len(word) - 1)) = word

\* \s*: greedy, the position after the run of whitespace that starts at i
SkipSpace(s, i) ==
    CHOOSE j \in i..(Len(s) + 1) :
        /\ \A k \in i..(j - 1) : IsSpace(s[k])
        /\ j <= Len(s) => ~IsSpace(s[j])

\* the first alternative of `words` that matches at i: the position after it
AltAt(s, i, words) ==
    IF \E k \in 1..Len(words) : LitAt(s, i, words[k])
    THEN i + Len(words[CHOOSE k \in 1..Len(words) :
                    LitAt(s, i, words[k])
                    /\ \A m \in 1..(k - 1) : ~LitAt(s, i, words[m])])
    ELSE 0

SpeakerWords ==
    << <<"a", "n", "s", "w", "e", "r">>,
       <<"r", "e", "s", "p", "o", "n", "s", "e">>,
       <<"a", "s", "s", "i", "s", "t", "a", "n", "t">>,
       <<"a", "i">> >>

LeadWords ==
    << <<"a", "c", "c", "o", "r", "d", "i", "n", "g", " ", "t", "o">>,
       <<"b", "a", "s", "e", "d", " ", "o", "n">> >>

NounWords ==
    << <<"d", "o", "c", "u", "m", "e", "n", "t">>,
       <<"c", "o", "n", "t", "e", "x", "t">>,
       <<"i", "n", "f", "o", "r", "m", "a", "t", "i", "o", "n">> >>

\* ^(Answer|Response|Assistant|AI):\s*
MatchSpeaker(s, i) ==
    LET a == AltAt(s, i, SpeakerWords)
    IN IF a # 0 /\ LitAt(s, a, <<":">>) THEN SkipSpace(s, a + 1) ELSE 0

\* [,:]?\s* from position e
MatchPunctuation(s, e) ==
    IF LitAt(s, e, <<",">>) \/ LitAt(s, e, <<":">>)
    THEN SkipSpace(s, e + 1)
    ELSE SkipSpace(s, e)

\* s? after "document" matched from c to d, then the rest
MatchPlural(s, c, d) ==
    IF LitAt(s, c, NounWords[1]) /\ LitAt(s, d, <<"s">>)
    THEN MatchPunctuation(s, d + 1)
    ELSE MatchPunctuation(s, d)

\* (documents?|context|information) from position c, then the rest
MatchNoun(s, c) ==
    IF AltAt(s, c, NounWords) = 0 THEN 0 ELSE MatchPlural(s, c, AltAt(s, c, NounWords))

\* ^(According to|Based on) (the )?(documents?|context|information)[,:]?\s*
\* "the " is taken when a noun follows it, else the noun must stand at b
MatchBasedOn(s, i) ==
    LET b == AltAt(s, i, LeadWords) + 1
    IN IF b = 1 \/ ~LitAt(s, b - 1, <<" ">>) THEN 0
       ELSE MatchNoun(s, IF LitAt(s, b, <<"t", "h", "e", " ">>)
                            /\ AltAt(s, b + 4, NounWords) # 0
                         THEN b + 4 ELSE b)

\* ^ under re.MULTILINE: the start of the text or just after a newline
AtLineStart(s, i) == i = 1 \/ s[i - 1] = "\n"

PatternAt(pattern, s, i) ==
    IF ~AtLineStart(s, i) THEN 0
    ELSE IF pattern = 1 THEN MatchSpeaker(s, i)
    ELSE MatchBasedOn(s, i)

\* the first position after i at which ^ matches, or the end of the text
NextLineStart(s, i) ==
    CHOOSE j \in (i + 1)..(Len(s) + 1) :
        /\ j <= Len(s) => s[j - 1] = "\n"
        /\ \A k \in (i + 1)..(j - 1) : s[k - 1] # "\n"

\* re.sub(pattern, '', s): every non-overlapping match, left to right; text
\* between two places where ^ matches is copied
RECURSIVE ReSubFrom(_, _, _)
ReSubFrom(pattern, s, i) ==
    IF i > Len(s) THEN <<>>
    ELSE LET e == PatternAt(pattern, s, i)
         IN IF e # 0 THEN ReSubFrom(pattern, s, e)
            ELSE LET n == NextLineStart(s, i)
                 IN SubSeq(s, i, n - 1) \o ReSubFrom(pattern, s, n)

ReSub(pattern, s) == ReSubFrom(pattern, s, 1)

\* the window in which the echoed question is looked for
EchoWindow == 150

\* lines of at most this many characters are dropped
NoiseLen == 3

\* answers shorter than this are rejected
MinAnswerLen == 15

\* remove the question echo if it appears at the start
StripEcho(answer, original_question) ==
    IF Contains(UpTo(Lower(answer), EchoWindow), Lower(original_question))
    THEN IF Contains(Lower(answer), Lower(original_question))
         THEN Strip(From(answer, Find(Lower(answer), Lower(original_question))
                                  + Len(original_question)))
         ELSE answer
    ELSE answer

\* as StripPrefixes, without the second pattern
StripPrefixesSpeakerOnly(answer) == ReSub(1, answer)

\* remove common prefixes: both patterns, in order
StripPrefixes(answer) == ReSub(2, ReSub(1, answer))

\* remove duplicate lines; acc is <<seen, unique_lines>>
RECURSIVE DedupLoop(_, _, _)
DedupLoop(lines, seen, unique_lines) ==
    IF lines = <<>> THEN unique_lines
    ELSE LET line == Head(lines)
             line_clean == Lower(Strip(line))
         IN IF line_clean # <<>> /\ line_clean \notin seen /\ Len(line_clean) > NoiseLen
            THEN DedupLoop(Tail(lines), seen \cup {line_clean},
                           Append(unique_lines, Strip(line)))
            ELSE DedupLoop(Tail(lines), seen, unique_lines)

DedupLines(answer) == Strip(JoinLines(DedupLoop(SplitLines(answer), {}, <<>>)))

\* fallback for very short or repeated answers
Degenerate(answer, original_question) ==
    Len(answer) < MinAnswerLen \/ Lower(answer) = Lower(original_question)

clean_response(response, original_question) ==
    LET answer == DedupLines(StripPrefixes(StripEcho(Strip(response), original_question)))
    IN IF Degenerate(answer, original_question) THEN None ELSE answer

(***************************************************************************)
(* State                                                                   *)
(***************************************************************************)
VARIABLES
    docsDir,          \* os.path.exists(DOCS_DIR)
    files,            \* path -> content or Absent
    hashFile,         \* ingested_files.json
    db,               \* chroma_db
    pc,               \* position of the ingest() run
    mode,             \* "cli": python ingest.py, "ui": Save & Process
    ingested_hashes,  \* load_new_or_changed_documents locals
    updated_hashes,
    documents,
    file_paths,       \* the paths the loop has still to visit
    chunks,
    result,           \* what the last ingest() run returned, or how it ended
    cache,            \* st.cache_resource entry of load_vector_store
    cachedUnder,      \* history: the _hash of the call that filled the cache
    runs,             \* ingest() runs started
    manifestAtStart,  \* history: ingested_files.json when the run began
    discovered,       \* history: the paths glob found in the run
    needed,           \* history: the files the run found new or changed
    dirty,            \* history: a file changed since the last run ended
    unchanged,        \* history: no file changed since the previous run ended
    prevResult,       \* history: the result of the previous run
    lastLoad          \* history: the last load_vector_store call since a run

ingestVars == <<docsDir, files, hashFile, db, pc, mode, ingested_hashes, updated_hashes,
                documents, file_paths, chunks, result, cache, cachedUnder, runs,
                manifestAtStart, discovered, needed, dirty, unchanged, prevResult,
                lastLoad>>

\* one call of clean_response, and a second call on its result
VARIABLES
    c_pc,             \* "start", "cleaned", "again"
    c_response,       \* the raw model output
    c_question,       \* original_question
    c_answer,         \* clean_response(c_response, c_question)
    c_again           \* clean_response(c_answer, c_question)

cleanVars == <<c_pc, c_response, c_question, c_answer, c_again>>

\* one call of retrieve_relevant_documents
VARIABLES
    r_pc,             \* "start", "done"
    r_store,          \* vector_store: "None" or "Chroma"
    r_selected,       \* selected_docs
    r_k,
    r_threshold,
    r_results,        \* what similarity_search_with_score returned
    r_out             \* the list returned

retrieveVars == <<r_pc, r_store, r_selected, r_k, r_threshold, r_results, r_out>>

\* one call of create_prompt_with_context
VARIABLES
    p_pc,             \* "start", "done"
    p_question,
    p_docs,
    p_max_docs,
    p_prompt

promptVars == <<p_pc, p_question, p_docs, p_max_docs, p_prompt>>

vars == <<ingestVars, cleanVars, retrieveVars, promptVars>>

(***************************************************************************)
(* Results of a run                                                        *)
(***************************************************************************)
Res(kind, nd, nc) == [kind |-> kind, docs |-> nd, chunks |-> nc]

\* the strings ingest() returns
Returned == {"Created", "NoNew", "Success"}

NoEntry == [present |-> FALSE, value |-> "None"]

NoLoad == [called |-> FALSE, fresh |-> FALSE, hash |-> <<"none">>, value |-> "None"]

\* a checkout with or without an (empty) docs/ directory; nothing ingested
IngestInit ==
    /\ docsDir \in BOOLEAN
    /\ files = [p \in Paths |-> Absent]
    /\ hashFile = NoFile
    /\ db = NoDB
    /\ pc = "idle"
    /\ mode = "cli"
    /\ ingested_hashes = <<>>
    /\ updated_hashes = <<>>
    /\ documents = <<>>
    /\ file_paths = <<>>
    /\ chunks = <<>>
    /\ result = Res("none", 0, 0)
    /\ cache = NoEntry
    /\ cachedUnder = <<"none">>
    /\ runs = 0
    /\ manifestAtStart = NoFile
    /\ discovered = {}
    /\ needed = {}
    /\ dirty = FALSE
    /\ unchanged = FALSE
    /\ prevResult = Res("none", 0, 0)
    /\ lastLoad = NoLoad

(***************************************************************************)
(* ingest()                                                                *)
(***************************************************************************)
\* the run ends: it returned `res` or an exception left it. Save & Process
\* clears the resource cache after ingest() returns (app.py 234-237).
EndRun(m, res) ==
    /\ pc' = "idle"
    /\ result' = res
    /\ ingested_hashes' = <<>>
    /\ updated_hashes' = <<>>
    /\ documents' = <<>>
    /\ file_paths' = <<>>
    /\ chunks' = <<>>
    /\ cache' = IF m = "ui" /\ res.kind \in Returned THEN NoEntry ELSE cache

\* ingest() up to the start of the loop over file_paths (ingest.py 108-114,
\* 52-60), on the file system `fs` with docs/ existing or not
BeginRun(m, fs, dirExists, changedNow) ==
    /\ runs < MaxRuns
    /\ runs' = runs + 1
    /\ mode' = m
    /\ docsDir' = TRUE
    /\ prevResult' = result
    /\ unchanged' = (runs >= 1 /\ ~dirty /\ ~changedNow)
    /\ dirty' = FALSE
    /\ manifestAtStart' = hashFile
    /\ needed' = {}
    /\ lastLoad' = NoLoad
    /\ UNCHANGED <<hashFile, db, cachedUnder>>
    /\ IF ~dirExists
       THEN /\ discovered' = {}
            /\ EndRun(m, Res("Created", 0, 0))
       ELSE IF JsonLoadRaises(hashFile)
       THEN /\ discovered' = {}
            /\ EndRun(m, Res("raised", 0, 0))
       ELSE \E fp \in FilePathLists(fs) :
            /\ file_paths' = fp
            /\ discovered' = Range(fp)
            /\ ingested_hashes' = load_ingested_hashes(hashFile)
            /\ updated_hashes' = load_ingested_hashes(hashFile)
            /\ documents' = <<>>
            /\ chunks' = <<>>
            /\ pc' = "load"
            /\ UNCHANGED <<result, cache>>

\* python ingest.py
IngestCLI ==
    /\ pc = "idle"
    /\ files' = files
    /\ BeginRun("cli", files, docsDir, FALSE)
    /\ UNCHANGED <<cleanVars, retrieveVars, promptVars>>

\* sidebar: the uploaded file is written into docs/, then ingest() runs
SaveAndProcess ==
    /\ pc = "idle"
    /\ \E p \in {q \in Paths : q.ext \in {"md", "txt"}}, c \in Contents :
        /\ files' = [files EXCEPT ![p] = c]
        /\ BeginRun("ui", files', TRUE, files[p] # c)
    /\ UNCHANGED <<cleanVars, retrieveVars, promptVars>>

\* one iteration of the loop of load_new_or_changed_documents
LoadFile ==
    /\ pc = "load"
    /\ file_paths # <<>>
    /\ LET file_path == Head(file_paths)
           file_hash == compute_file_hash(files[file_path])
       IN IF DictGet(ingested_hashes, file_path) = file_hash
          THEN /\ file_paths' = Tail(file_paths)
               /\ UNCHANGED <<pc, result, ingested_hashes, updated_hashes, documents,
                              chunks, cache, needed>>
          ELSE /\ needed' = needed \cup {file_path}
               /\ IF LoaderRaises(files[file_path])
                  THEN EndRun(mode, Res("raised", 0, 0))
                  ELSE /\ documents' = documents \o
                             TagSource(LoaderLoad(file_path, files[file_path]), file_path)
                       /\ updated_hashes' = DictSet(updated_hashes, file_path, file_hash)
                       /\ file_paths' = Tail(file_paths)
                       /\ UNCHANGED <<pc, result, ingested_hashes, chunks, cache>>
    /\ UNCHANGED <<docsDir, files, hashFile, db, mode, cachedUnder, runs, manifestAtStart,
                   discovered, dirty, unchanged, prevResult, lastLoad>>
    /\ UNCHANGED <<cleanVars, retrieveVars, promptVars>>

\* the loop is over: nothing loaded returns early, else the documents are split
LoadDone ==
    /\ pc = "load"
    /\ file_paths = <<>>
    /\ IF documents = <<>>
       THEN EndRun(mode, Res("NoNew", 0, 0))
       ELSE /\ chunks' = split_documents(documents)
            /\ pc' = "add"
            /\ UNCHANGED <<result, ingested_hashes, updated_hashes, documents,
                           file_paths, cache>>
    /\ UNCHANGED <<docsDir, files, hashFile, db, mode, cachedUnder, runs, manifestAtStart,
                   discovered, needed, dirty, unchanged, prevResult, lastLoad>>
    /\ UNCHANGED <<cleanVars, retrieveVars, promptVars>>

\* the chunks are embedded and added to the index, created if absent
AddToIndex ==
    /\ pc = "add"
    /\ db' = AddDocuments(db, chunks)
    /\ pc' = "save"
    /\ UNCHANGED <<docsDir, files, hashFile, mode, ingested_hashes, updated_hashes,
                   documents, file_paths, chunks, result, cache, cachedUnder, runs,
                   manifestAtStart, discovered, needed, dirty, unchanged, prevResult,
                   lastLoad>>
    /\ UNCHANGED <<cleanVars, retrieveVars, promptVars>>

\* save_ingested_hashes: open(HASH_FILE, "w") truncates the file
SaveOpen ==
    /\ pc = "save"
    /\ hashFile' = Truncated
    /\ pc' = "dump"
    /\ UNCHANGED <<docsDir, files, db, mode, ingested_hashes, updated_hashes,
                   documents, file_paths, chunks, result, cache, cachedUnder, runs,
                   manifestAtStart, discovered, needed, dirty, unchanged, prevResult,
                   lastLoad>>
    /\ UNCHANGED <<cleanVars, retrieveVars, promptVars>>

\* json.dump writes the entries one after the other
SaveWrite ==
    /\ pc = "dump"
    /\ Len(hashFile.pairs) < Len(updated_hashes)
    /\ hashFile' = [hashFile EXCEPT
                      !.pairs = Append(@, updated_hashes[Len(hashFile.pairs) + 1])]
    /\ UNCHANGED <<docsDir, files, db, pc, mode, ingested_hashes, updated_hashes,
                   documents, file_paths, chunks, result, cache, cachedUnder, runs,
                   manifestAtStart, discovered, needed, dirty, unchanged, prevResult,
                   lastLoad>>
    /\ UNCHANGED <<cleanVars, retrieveVars, promptVars>>

\* the text is complete, the file is closed and ingest() returns
SaveClose ==
    /\ pc = "dump"
    /\ Len(hashFile.pairs) = Len(updated_hashes)
    /\ hashFile' = JsonDump(updated_hashes)
    /\ EndRun(mode, Res("Success", Len(documents), Len(chunks)))
    /\ UNCHANGED <<docsDir, files, db, mode, cachedUnder, runs, manifestAtStart,
                   discovered, needed, dirty, unchanged, prevResult, lastLoad>>
    /\ UNCHANGED <<cleanVars, retrieveVars, promptVars>>

\* the process dies, or a library call raises, anywhere inside the run
Crash ==
    /\ pc # "idle"
    /\ EndRun(mode, Res("killed", 0, 0))
    /\ UNCHANGED <<docsDir, files, hashFile, db, mode, cachedUnder, runs,
                   manifestAtStart, discovered, needed, dirty, unchanged, prevResult,
                   lastLoad>>
    /\ UNCHANGED <<cleanVars, retrieveVars, promptVars>>

(***************************************************************************)
(* Between runs: the user edits docs/, the app reruns its script           *)
(***************************************************************************)
WriteFile ==
    /\ pc = "idle"
    /\ docsDir
    /\ \E p \in Paths, c \in Contents \cup {Absent} :
        /\ files[p] # c
        /\ files' = [files EXCEPT ![p] = c]
    /\ dirty' = TRUE
    /\ UNCHANGED <<docsDir, hashFile, db, pc, mode, ingested_hashes, updated_hashes,
                   documents, file_paths, chunks, result, cache, cachedUnder, runs,
                   manifestAtStart, discovered, needed, unchanged, prevResult, lastLoad>>
    /\ UNCHANGED <<cleanVars, retrieveVars, promptVars>>

\* load_vector_store(_hash): st.cache_resource leaves a parameter whose name
\* starts with an underscore out of the cache key, so the key is constant
load_vector_store_value == IF ~db.exists THEN "None" ELSE "Chroma"

LoadVectorStore(h) ==
    /\ cache' = IF cache.present
                THEN cache
                ELSE [present |-> TRUE, value |-> load_vector_store_value]
    /\ cachedUnder' = IF cache.present THEN cachedUnder ELSE h
    /\ lastLoad' = [called |-> TRUE, fresh |-> ~cache.present, hash |-> h,
                    value |-> cache'.value]

\* get_indexed_sources(vector_store)
get_indexed_sources(vs) == IF vs = "None" THEN {} ELSE IndexedSources(db)

\* a script run with no button pressed (app.py 242-244)
AppRerun ==
    /\ pc = "idle"
    /\ LoadVectorStore(get_ingestion_hash(hashFile))
    /\ UNCHANGED <<docsDir, files, hashFile, db, pc, mode, ingested_hashes,
                   updated_hashes, documents, file_paths, chunks, result, runs,
                   manifestAtStart, discovered, needed, dirty, unchanged, prevResult>>
    /\ UNCHANGED <<cleanVars, retrieveVars, promptVars>>

\* a script run with "Reset Knowledge Base" pressed (app.py 242-264): the
\* button exists only when the index lists a source
ResetKB ==
    /\ pc = "idle"
    /\ LET vs == IF cache.present THEN cache.value ELSE load_vector_store_value
       IN get_indexed_sources(vs) # {}
    /\ db' = NoDB
    /\ cache' = NoEntry
    /\ lastLoad' = [called |-> TRUE, fresh |-> ~cache.present,
                    hash |-> get_ingestion_hash(hashFile),
                    value |-> IF cache.present THEN cache.value
                              ELSE load_vector_store_value]
    /\ cachedUnder' = IF cache.present THEN cachedUnder
                      ELSE get_ingestion_hash(hashFile)
    /\ UNCHANGED <<docsDir, files, hashFile, pc, mode, ingested_hashes,
                   updated_hashes, documents, file_paths, chunks, result, runs,
                   manifestAtStart, discovered, needed, dirty, unchanged, prevResult>>
    /\ UNCHANGED <<cleanVars, retrieveVars, promptVars>>

IngestNext ==
    \/ IngestCLI
    \/ SaveAndProcess
    \/ LoadFile
    \/ LoadDone
    \/ AddToIndex
    \/ SaveOpen
    \/ SaveWrite
    \/ SaveClose
    \/ Crash
    \/ WriteFile
    \/ AppRerun
    \/ ResetKB

(***************************************************************************)
(* Properties of the ingestion pipeline                                     *)
(***************************************************************************)
\* this step ends an ingest() run
RunEnds == pc' = "idle" /\ (pc # "idle" \/ runs' # runs)

\* this step is an ingest() run returning one of its strings
RunReturns == RunEnds /\ result'.kind \in Returned

\* the file at p is new or changed with respect to the manifest text f
NeedsIngestion(f, fs, p) ==
    DictGet(load_ingested_hashes(f), p) # compute_file_hash(fs[p])

\* the manifest text f is complete and records the current content of p
Recorded(f, fs, p) ==
    f.exists /\ f.closed /\ DictGet(f.pairs, p) = compute_file_hash(fs[p])

\* the file at p yields at least one fragment
HasFragments(fs, p) ==
    fs[p] # Absent /\ ~LoaderRaises(fs[p])
    /\ split_documents(LoaderLoad(p, fs[p])) # <<>>

\* C1: of two consecutive ingest() runs with no file changed in between, the
\* first having returned, the second finds no file new or changed, returns
\* "No new or changed documents to ingest." and leaves the manifest as the
\* first run left it.
C1_SecondRunSkipsAll ==
    (unchanged /\ prevResult.kind \in Returned) =>
        /\ needed = {}
        /\ (pc = "idle" /\ result.kind \in Returned) =>
              (result.kind = "NoNew" /\ hashFile = manifestAtStart)

\* C2: when an ingest() run returns, it has loaded exactly the discovered
\* files that were absent from the manifest or recorded with another
\* fingerprint, and the manifest records the new fingerprint of each of them.
C2_ChangedFilesReprocessedAndRecorded ==
    [][RunReturns =>
         \A p \in discovered' :
            /\ (p \in needed') <=> NeedsIngestion(manifestAtStart', files', p)
            /\ (p \in needed') => Recorded(hashFile', files', p)]_vars

\* C3: a run that ends before the manifest write has completed leaves the
\* manifest exactly as it was when the run began; a run that commits leaves
\* the prior entries overridden by those of the files it processed.
C3_ManifestCommitAtomic ==
    [][RunEnds =>
         IF result'.kind = "Success"
         THEN /\ hashFile'.exists /\ hashFile'.closed
              /\ Range(hashFile'.pairs) =
                   {kv \in Range(load_ingested_hashes(manifestAtStart')) :
                        kv[1] \notin needed'}
                   \cup {<<p, compute_file_hash(files'[p])>> : p \in needed'}
         ELSE hashFile' = manifestAtStart']_vars

\* C4: when one new or changed file of a batch cannot be loaded, every other
\* new or changed file of the batch is still recorded in the manifest and, if
\* it has fragments, present in the index when the run ends (the run not
\* having been killed from outside).
C4_LoadFailureDoesNotAbortBatch ==
    [][(/\ RunEnds
        /\ result'.kind # "killed"
        /\ \E bad \in discovered' :
              /\ NeedsIngestion(manifestAtStart', files', bad)
              /\ LoaderRaises(files'[bad]))
       => \A p \in discovered' :
             (NeedsIngestion(manifestAtStart', files', p) /\ ~LoaderRaises(files'[p]))
             => /\ Recorded(hashFile', files', p)
                /\ HasFragments(files', p) => Basename(p) \in IndexedSources(db')]_vars

\* C8: after an ingest() run that returned "Success!" (so changed the
\* manifest), load_vector_store does not answer from the cache a call whose
\* manifest fingerprint differs from the one the cached value was built under.
C8_CacheKeyedOnManifest ==
    (pc = "idle" /\ result.kind = "Success" /\ lastLoad.called /\ ~lastLoad.fresh)
        => lastLoad.hash = cachedUnder

\* C10: whenever an ingest() run returns, every file whose current
\* fingerprint the manifest records and which yields a fragment has fragments
\* under its source name in the index.
C10_ManifestIndexConsistent ==
    [][RunReturns =>
         \A p \in Paths :
            (files'[p] # Absent /\ Recorded(hashFile', files', p)
             /\ HasFragments(files', p))
            => Basename(p) \in IndexedSources(db')]_vars

(***************************************************************************)
(* Calls of the query-path helpers that are not in progress                *)
(***************************************************************************)
CleanIdle ==
    /\ c_pc = "off"
    /\ c_response = <<>>
    /\ c_question = <<>>
    /\ c_answer = None
    /\ c_again = None

RetrieveIdle ==
    /\ r_pc = "off"
    /\ r_store = "None"
    /\ r_selected = {}
    /\ r_k = 0
    /\ r_threshold = 0
    /\ r_results = <<>>
    /\ r_out = <<>>

PromptIdle ==
    /\ p_pc = "off"
    /\ p_question = <<>>
    /\ p_docs = <<>>
    /\ p_max_docs = 0
    /\ p_prompt = <<>>

IngestIdle ==
    /\ IngestInit
    /\ docsDir = FALSE

(***************************************************************************)
(* The ingestion pipeline and the cached index handle                      *)
(***************************************************************************)
Init == IngestInit /\ CleanIdle /\ RetrieveIdle /\ PromptIdle

Next == IngestNext

Spec == Init /\ [][Next]_vars

(***************************************************************************)
(* clean_response applied once and again                                   *)
(***************************************************************************)
\* pieces a raw output is put together from
MaxPieces == 3

TextQuestion ==
    <<"W", "h", "a", "t", " ", "i", "s", " ", "X", "?">>

TextLongQuestion ==
    <<"W", "h", "a", "t", " ", "i", "s", " ", "t", "h", "e", " ", "v", "a", "l",
      "u", "e", " ", "o", "f", " ", "X", "?">>

TextAnswerLabel ==
    <<"A", "n", "s", "w", "e", "r", ":", " ">>

TextBasedOn ==
    <<"B", "a", "s", "e", "d", " ", "o", "n", " ", "t", "h", "e", " ", "d", "o",
      "c", "u", "m", "e", "n", "t", "s", ",", " ">>

TextShort ==
    <<"X", " ", "i", "s", " ", "Y", ".">>

TextLong ==
    <<"T", "h", "e", " ", "v", "a", "l", "u", "e", " ", "o", "f", " ", "X", " ",
      "i", "s", " ", "f", "o", "r", "t", "y", " ", "t", "w", "o", ".">>

ScenarioResponse ==
    <<"B", "a", "s", "e", "d", " ", "o", "n", " ", "t", "h", "e", " ", "d", "o",
      "c", "u", "m", "e", "n", "t", "s", ",", " ", "X", " ", "i", "s", " ", "Y",
      ".", " ", "X", " ", "i", "s", " ", "Y", ".">>

ScenarioCleaned ==
    <<"X", " ", "i", "s", " ", "Y", ".", " ", "X", " ", "i", "s", " ", "Y", ".">>

\* text that fills the window in which the echo is looked for
TextFiller == [i \in 1..EchoWindow |-> "z"]

Pieces ==
    {TextQuestion, TextLongQuestion, TextAnswerLabel, TextBasedOn, TextShort,
     TextLong, TextFiller, <<" ">>, <<"\n">>}

RECURSIVE Texts(_)
Texts(n) ==
    IF n = 0 THEN {<<>>}
    ELSE Texts(n - 1) \cup {a \o b : a \in Pieces, b \in Texts(n - 1)}

Responses == Texts(MaxPieces) \cup {ScenarioResponse}

Questions == {TextQuestion, TextLongQuestion}

CleanInit ==
    /\ c_pc = "start"
    /\ c_response \in Responses
    /\ c_question \in Questions
    /\ c_answer = None
    /\ c_again = None

\* answer = clean_response(response, prompt)
Clean ==
    /\ c_pc = "start"
    /\ c_answer' = clean_response(c_response, c_question)
    /\ c_pc' = "cleaned"
    /\ UNCHANGED <<c_response, c_question, c_again>>
    /\ UNCHANGED <<ingestVars, retrieveVars, promptVars>>

\* the cleaned answer is cleaned again
CleanAgain ==
    /\ c_pc = "cleaned"
    /\ c_answer # None
    /\ c_again' = clean_response(c_answer, c_question)
    /\ c_pc' = "again"
    /\ UNCHANGED <<c_response, c_question, c_answer>>
    /\ UNCHANGED <<ingestVars, retrieveVars, promptVars>>

CleanNext ==
    \/ Clean
    \/ CleanAgain

InitClean == IngestIdle /\ CleanInit /\ RetrieveIdle /\ PromptIdle

SpecClean == InitClean /\ [][CleanNext]_vars

\* C6: cleaning a cleaned answer gives the same answer again.
C6_CleanIdempotent == c_pc = "again" => c_again = c_answer

\* C7 as stated: for "Based on the documents, X is Y. X is Y." and question
\* "What is X?" clean_response returns "X is Y.".
C7_ScenarioReturnsOneSentence ==
    (c_pc # "start" /\ c_response = ScenarioResponse /\ c_question = TextQuestion)
        => c_answer = TextShort

\* C7 as amended: for that output and question clean_response strips the
\* prefix and returns "X is Y. X is Y.": the repeated sentence is on one line
\* and only repeated lines are dropped.
C7_ScenarioKeepsRepeatedSentence ==
    (c_pc # "start" /\ c_response = ScenarioResponse /\ c_question = TextQuestion)
        => c_answer = ScenarioCleaned

C7_Witness ==
    /\ c_pc = "cleaned"
    /\ c_response = ScenarioResponse
    /\ c_question = TextQuestion
    /\ c_answer # None
    /\ c_answer # c_response

(***************************************************************************)
(* retrieve_relevant_documents (app.py 110-130)                            *)
(***************************************************************************)
\* fragments in the index, the largest k, the largest distance
NumFragments == 3

MaxK == 3

MaxScore == 3

SourceNames == {"a.md", "b.md"}

\* the fragments stored in the index, with their source metadata
StoredDocs ==
    {[id |-> i, source |-> IF i % 2 = 1 THEN "a.md" ELSE "b.md"] : i \in 1..NumFragments}

\* lists of n distinct documents of `docs` with distances ascending from lo
RECURSIVE Ranked(_, _, _)
Ranked(docs, n, lo) ==
    IF n = 0 THEN {<<>>}
    ELSE UNION {{<< <<d, sc>> >> \o rest : rest \in Ranked(docs \ {d}, n - 1, sc)} :
                    d \in docs, sc \in lo..MaxScore}

\* similarity_search_with_score(query, k, filter={"source": {"$in": selected}}):
\* the k nearest fragments of the selected sources, ascending by distance
SimilaritySearch(selected, k) ==
    LET allowed == {d \in StoredDocs : d.source \in selected}
    IN Ranked(allowed, Min(k, Cardinality(allowed)), 0)

\* as RelevantDocs, with the threshold itself excluded
RelevantDocsStrict(results, threshold) ==
    SelectSeq(results, LAMBDA pair : pair[2] < threshold)

\* [(doc, score) for doc, score in results if score <= threshold]
RelevantDocs(results, threshold) ==
    SelectSeq(results, LAMBDA pair : pair[2] <= threshold)

RetrieveInit ==
    /\ r_pc = "start"
    /\ r_store \in {"None", "Chroma"}
    /\ r_selected \in SUBSET SourceNames
    /\ r_k \in 0..MaxK
    /\ r_threshold \in 0..MaxScore
    /\ r_results = <<>>
    /\ r_out = <<>>

\* the call returns without a query, or filters what the index returned
Retrieve ==
    /\ r_pc = "start"
    /\ IF r_store = "None" \/ r_selected = {}
       THEN /\ r_pc' = "skipped"
            /\ r_out' = <<>>
            /\ UNCHANGED r_results
       ELSE \E results \in SimilaritySearch(r_selected, r_k) :
            /\ r_pc' = "done"
            /\ r_results' = results
            /\ r_out' = RelevantDocs(results, r_threshold)
    /\ UNCHANGED <<r_store, r_selected, r_k, r_threshold>>
    /\ UNCHANGED <<ingestVars, cleanVars, promptVars>>

\* the query raises: the error is shown and the list is empty
RetrieveFails ==
    /\ r_pc = "start"
    /\ r_store # "None"
    /\ r_selected # {}
    /\ r_pc' = "failed"
    /\ r_out' = <<>>
    /\ UNCHANGED <<r_store, r_selected, r_k, r_threshold, r_results>>
    /\ UNCHANGED <<ingestVars, cleanVars, promptVars>>

RetrieveNext ==
    \/ Retrieve
    \/ RetrieveFails

InitRetrieve == IngestIdle /\ CleanIdle /\ RetrieveInit /\ PromptIdle

SpecRetrieve == InitRetrieve /\ [][RetrieveNext]_vars

\* the positions of the index's list whose score is within the threshold
KeptPositions == {j \in 1..Len(r_results) : r_results[j][2] <= r_threshold}

\* C5: the returned list holds no pair with score > threshold, has at most k
\* pairs, and is the index's list without the over-threshold pairs, the kept
\* pairs in their order.
C5_RetrieveFiltersByThreshold ==
    r_pc # "start" =>
        /\ \A i \in 1..Len(r_out) : ~(r_out[i][2] > r_threshold)
        /\ Len(r_out) <= r_k
        /\ Len(r_out) = Cardinality(KeptPositions)
        /\ \A j \in KeptPositions :
              r_out[Cardinality({m \in KeptPositions : m <= j})] = r_results[j]

C5_Witness ==
    /\ r_pc = "done"
    /\ Len(r_results) = r_k
    /\ Len(r_out) >= 2
    /\ Len(r_out) < Len(r_results)
    /\ \E i \in 1..Len(r_out) : r_out[i][2] = r_threshold

(***************************************************************************)
(* create_prompt_with_context (app.py 133-169)                             *)
(***************************************************************************)
\* each chunk is limited to this many characters
DisplayLen == 400

\* the template up to {context}
PromptHead ==
    <<"<", "|", "b", "e", "g", "i", "n", "_", "o", "f", "_", "t", "e", "x", "t",
      "|", ">", "<", "|", "s", "t", "a", "r", "t", "_", "h", "e", "a", "d", "e",
      "r", "_", "i", "d", "|", ">", "s", "y", "s", "t", "e", "m", "<", "|", "e",
      "n", "d", "_", "h", "e", "a", "d", "e", "r", "_", "i", "d", "|", ">", "\n",
      "\n", "Y", "o", "u", " ", "a", "r", "e", " ", "a", " ", "h", "e", "l", "p",
      "f", "u", "l", " ", "a", "s", "s", "i", "s", "t", "a", "n", "t", ".", " ",
      "A", "n", "s", "w", "e", "r", " ", "q", "u", "e", "s", "t", "i", "o", "n",
      "s", " ", "u", "s", "i", "n", "g", " ", "o", "n", "l", "y", " ", "t", "h",
      "e", " ", "p", "r", "o", "v", "i", "d", "e", "d", " ", "d", "o", "c", "u",
      "m", "e", "n", "t", "s", ".", "\n", "\n", "D", "o", "c", "u", "m", "e", "n",
      "t", "s", ":", "\n">>

\* the template between {context} and {question}
PromptRules ==
    <<"\n", "\n", "R", "u", "l", "e", "s", ":", "\n", "-", " ", "A", "n", "s", "w",
      "e", "r", " ", "d", "i", "r", "e", "c", "t", "l", "y", " ", "b", "a", "s",
      "e", "d", " ", "o", "n", " ", "t", "h", "e", " ", "d", "o", "c", "u", "m",
      "e", "n", "t", "s", "\n", "-", " ", "K", "e", "e", "p", " ", "a", "n", "s",
      "w", "e", "r", "s", " ", "c", "o", "n", "c", "i", "s", "e", "\n", "-", " ",
      "D", "o", "n", "'", "t", " ", "r", "e", "p", "e", "a", "t", " ", "t", "h",
      "e", " ", "q", "u", "e", "s", "t", "i", "o", "n", "\n", "-", " ", "I", "f",
      " ", "i", "n", "f", "o", "r", "m", "a", "t", "i", "o", "n", " ", "i", "s",
      " ", "n", "o", "t", " ", "i", "n", " ", "d", "o", "c", "u", "m", "e", "n",
      "t", "s", ",", " ", "s", "a", "y", " ", "\"", "I", " ", "d", "o", "n", "'",
      "t", " ", "h", "a", "v", "e", " ", "t", "h", "a", "t", " ", "i", "n", "f",
      "o", "r", "m", "a", "t", "i", "o", "n", "\"", "\n", "<", "|", "e", "o", "t",
      "_", "i", "d", "|", ">", "<", "|", "s", "t", "a", "r", "t", "_", "h", "e",
      "a", "d", "e", "r", "_", "i", "d", "|", ">", "u", "s", "e", "r", "<", "|",
      "e", "n", "d", "_", "h", "e", "a", "d", "e", "r", "_", "i", "d", "|", ">",
      "\n", "\n">>

\* the template after {question}
PromptTail ==
    <<"<", "|", "e", "o", "t", "_", "i", "d", "|", ">", "<", "|", "s", "t", "a",
      "r", "t", "_", "h", "e", "a", "d", "e", "r", "_", "i", "d", "|", ">", "a",
      "s", "s", "i", "s", "t", "a", "n", "t", "<", "|", "e", "n", "d", "_", "h",
      "e", "a", "d", "e", "r", "_", "i", "d", "|", ">", "\n", "\n">>

SourceWord ==
    <<"[", "S", "o", "u", "r", "c", "e", " ">>

DecimalDigits == <<"0", "1", "2", "3", "4", "5", "6", "7", "8", "9">>

\* str(n) for n >= 0
RECURSIVE Str(_)
Str(n) ==
    IF n < 10 THEN <<DecimalDigits[n + 1]>>
    ELSE Str(n \div 10) \o <<DecimalDigits[(n % 10) + 1]>>

\* docs[:n], a negative n counting from the end
Slice(docs, n) ==
    IF n >= 0 THEN SubSeq(docs, 1, Min(n, Len(docs)))
    ELSE SubSeq(docs, 1, Max(Len(docs) + n, 0))

\* as Truncate, cutting already at the limit
TruncateAtLimit(content) ==
    IF Len(content) >= DisplayLen
    THEN SubSeq(content, 1, DisplayLen) \o <<".", ".", ".">>
    ELSE content

\* content[:400] + "..." when len(content) > 400
Truncate(content) ==
    IF Len(content) > DisplayLen
    THEN SubSeq(content, 1, DisplayLen) \o <<".", ".", ".">>
    ELSE content

\* f"[Source {i}]\n{content}"
ContextPart(i, page_content) ==
    SourceWord \o Str(i) \o <<"]", "\n">> \o Truncate(Strip(page_content))

\* "\n\n".join(parts)
RECURSIVE JoinParts(_)
JoinParts(parts) ==
    IF parts = <<>> THEN <<>>
    ELSE IF Len(parts) = 1 THEN parts[1]
    ELSE parts[1] \o <<"\n", "\n">> \o JoinParts(Tail(parts))

create_prompt_with_context(question, docs, max_docs) ==
    LET top == Slice(docs, max_docs)
        context_parts == [i \in 1..Len(top) |-> ContextPart(i, top[i])]
    IN PromptHead \o JoinParts(context_parts) \o PromptRules \o question \o PromptTail

\* longest list of docs, largest max_docs, most whitespace around a text
MaxDocs == 4

MaxMaxDocs == 4

MaxPad == 1

\* n characters of text with a blank inside
Body(n) ==
    [i \in 1..n |-> IF i = 2 /\ n >= 3 THEN " " ELSE IF i % 2 = 1 THEN "a" ELSE "b"]

Pad(n, c) == [i \in 1..n |-> c]

\* page contents around the display limit, with whitespace around them
PageContents ==
    {Pad(l, " ") \o Body(n) \o Pad(t, "\n") :
        l \in 0..MaxPad, t \in 0..MaxPad,
        n \in {0, 1, DisplayLen - 1, DisplayLen, DisplayLen + 1}}

\* a short text that differs from rank to rank
ShortContent(i) == <<"d">> \o Str(i)

\* ranked lists: one fragment of any content among short ones
DocLists ==
    {<<>>} \cup
    {[i \in 1..n |-> IF i = j THEN c ELSE ShortContent(i)] :
        n \in 1..MaxDocs, j \in 1..MaxDocs, c \in PageContents}

PromptInit ==
    /\ p_pc = "start"
    /\ p_question = TextQuestion
    /\ p_docs \in DocLists
    /\ p_max_docs \in 0..MaxMaxDocs
    /\ p_prompt = <<>>

BuildPrompt ==
    /\ p_pc = "start"
    /\ p_prompt' = create_prompt_with_context(p_question, p_docs, p_max_docs)
    /\ p_pc' = "done"
    /\ UNCHANGED <<p_question, p_docs, p_max_docs>>
    /\ UNCHANGED <<ingestVars, cleanVars, retrieveVars>>

PromptNext == BuildPrompt

InitPrompt == IngestIdle /\ CleanIdle /\ RetrieveIdle /\ PromptInit

SpecPrompt == InitPrompt /\ [][PromptNext]_vars

\* the text without the whitespace at its ends
RECURSIVE TrimLeft(_)
TrimLeft(t) == IF t # <<>> /\ IsSpace(t[1]) THEN TrimLeft(Tail(t)) ELSE t

RECURSIVE TrimRight(_)
TrimRight(t) ==
    IF t # <<>> /\ IsSpace(t[Len(t)]) THEN TrimRight(SubSeq(t, 1, Len(t) - 1)) ELSE t

\* what the claim says fragment i contributes
ShownText(i) ==
    LET trimmed == TrimRight(TrimLeft(p_docs[i]))
    IN IF Len(trimmed) <= 400 THEN trimmed
       ELSE [k \in 1..403 |-> IF k <= 400 THEN trimmed[k] ELSE "."]

\* what the claim says the context is: fragments 1..n labelled in rank order
RECURSIVE ExpectedContext(_, _)
ExpectedContext(i, n) ==
    IF i > n THEN <<>>
    ELSE <<"[", "S", "o", "u", "r", "c", "e", " ", DecimalDigits[i + 1], "]", "\n">>
         \o ShownText(i)
         \o (IF i < n THEN <<"\n", "\n">> ELSE <<>>)
         \o ExpectedContext(i + 1, n)

\* C9: the prompt holds exactly the first min(max_docs, number of fragments)
\* fragments in rank order, labelled [Source 1] .. [Source N], each with its
\* trimmed content, cut to 400 characters plus "..." when longer, so with at
\* most 403 characters.
C9_PromptContext ==
    p_pc = "done" =>
        /\ p_prompt = PromptHead
                      \o ExpectedContext(1, Min(p_max_docs, Len(p_docs)))
                      \o PromptRules \o p_question \o PromptTail
        /\ \A i \in 1..Min(p_max_docs, Len(p_docs)) : Len(ShownText(i)) <= 403

C9_Witness ==
    /\ p_pc = "done"
    /\ p_max_docs >= 2
    /\ Len(p_docs) > p_max_docs
    /\ \E i \in 1..p_max_docs : Len(Strip(p_docs[i])) > DisplayLen
    /\ \E i \in 1..p_max_docs : p_docs[i] # Strip(p_docs[i])

====
